---- MODULE Spec2Model ----
(***************************************************************************)
(* Model of the resilience layer of the F1 backend (src/main.py): the      *)
(* tiered result cache of session_results and circuit_map, the retrying    *)
(* session loader, the schedule accessor, the session de-duplication and   *)
(* the result-row normalizer.                                              *)
(***************************************************************************)
EXTENDS Integers, Sequences, FiniteSets, TLC

\* ------------------------------------------------------------------------
\* Program constants (src/main.py:26-32)
\* ------------------------------------------------------------------------
SCHEDULE_CACHE_TTL == 60 * 60 * 24 * 7
SESSION_RESULTS_FRESH_TTL == 60 * 60
SESSION_RESULTS_STALE_TTL == 60 * 60 * 24 * 7
CIRCUIT_MAP_FRESH_TTL == 60 * 60 * 24
CIRCUIT_MAP_STALE_TTL == 60 * 60 * 24 * 30
MAX_SESSION_LOAD_ATTEMPTS == 3
SESSION_LOAD_RETRY_DELAY_SECONDS == 1

\* ------------------------------------------------------------------------
\* Bounds of the model
\* ------------------------------------------------------------------------
\* calls of session_results / circuit_map started in one behaviour
MaxCalls == 2
\* successful upstream session loads in one behaviour
MaxLoads == 2
\* passages of time between handler steps in one behaviour
MaxTicks == 1
\* calls of get_schedule (through rounds and sessions) in one behaviour
MaxScheduleCalls == 3

\* concurrent request handlers (threads of the server's worker pool); a
\* request is taken by the first free one
Callers == {1, 2}
\* the two endpoints built on the tiered cache
Domains == {"session_results", "circuit_map"}
\* (year, round, session) coordinates: K1 names a session the provider
\* knows, KX names a round the provider does not know
Keys == {"K1", "KX"}
AbsentKeys == {"KX"}
\* amounts by which the clock moves between handler steps
TimeSteps == {SESSION_RESULTS_FRESH_TTL, CIRCUIT_MAP_FRESH_TTL, CIRCUIT_MAP_STALE_TTL}

\* Python's None, for payloads, errors, session handles and cache entries
None == 0
NoError == [type |-> "None", msg |-> ""]
NoSession == [id |-> 0, attempt |-> 0, defect |-> "none"]
NoEntry == [value |-> None, expire_time |-> 0]
NoResult == [status |-> 0, body |-> None, error |-> "", details |-> ""]

\* Exceptions the provider raises; str(exc) is the message
TransientErrors ==
    { [type |-> "ConnectionError", msg |-> "connection reset"],
      [type |-> "Timeout", msg |-> "read timed out"] }
NotFoundError == [type |-> "ValueError", msg |-> "Invalid round"]
NoLapError == [type |-> "ValueError", msg |-> "No lap data found for this session"]
NanFieldError == [type |-> "ValueError", msg |-> "cannot convert float NaN to integer"]
Str(exc) == exc.msg

\* ------------------------------------------------------------------------
\* Strings and cells of the provider's tables
\* ------------------------------------------------------------------------
UpperCase == << "A", "B", "C", "D", "E", "F", "G", "H", "I", "J", "K", "L", "M",
               "N", "O", "P", "Q", "R", "S", "T", "U", "V", "W", "X", "Y", "Z" >>
LowerCase == << "a", "b", "c", "d", "e", "f", "g", "h", "i", "j", "k", "l", "m",
               "n", "o", "p", "q", "r", "s", "t", "u", "v", "w", "x", "y", "z" >>
WhiteSpace == {" ", "\t", "\n"}

LowerChar(ch) ==
    IF \E i \in 1..26 : UpperCase[i] = ch
    THEN LowerCase[CHOOSE i \in 1..26 : UpperCase[i] = ch]
    ELSE ch

\* str.lower()
RECURSIVE Lower(_)
Lower(s) ==
    IF s = "" THEN ""
    ELSE LowerChar(SubSeq(s, 1, 1)) \o Lower(SubSeq(s, 2, Len(s)))

RECURSIVE LStrip(_)
LStrip(s) ==
    IF s # "" /\ SubSeq(s, 1, 1) \in WhiteSpace
    THEN LStrip(SubSeq(s, 2, Len(s)))
    ELSE s

RECURSIVE RStrip(_)
RStrip(s) ==
    IF s # "" /\ SubSeq(s, Len(s), Len(s)) \in WhiteSpace
    THEN RStrip(SubSeq(s, 1, Len(s) - 1))
    ELSE s

\* str.strip()
Strip(s) == RStrip(LStrip(s))

\* "sub in s"
Contains(s, sub) ==
    \E i \in 1..(Len(s) - Len(sub) + 1) : SubSeq(s, i, i + Len(sub) - 1) = sub

\* a cell of a DataFrame row, or a value of a response: a string, a number,
\* NaN/NaT, or None (also what row.get gives for a missing column); a pandas
\* Timestamp or Timedelta is written as str() prints it
Text(s) == [kind |-> "str", val |-> s, num |-> 0]
Num(n) == [kind |-> "num", val |-> "", num |-> n]
NaN == [kind |-> "nan", val |-> "", num |-> 0]
Missing == [kind |-> "none", val |-> "", num |-> 0]
Timestamp(s) == [kind |-> "ts", val |-> s, num |-> 0]
Timedelta(s) == [kind |-> "td", val |-> s, num |-> 0]
NaT == [kind |-> "nat", val |-> "", num |-> 0]

\* pd.isna(value)
PdIsNa(cell) == cell.kind \in {"nan", "nat", "none"}

\* str(value)
PyStr(cell) ==
    IF cell.kind = "nan" THEN "nan"
    ELSE IF cell.kind = "none" THEN "None"
    ELSE IF cell.kind = "nat" THEN "NaT"
    ELSE cell.val

\* bool(value)
Truthy(cell) ==
    IF cell.kind = "num" THEN cell.num # 0
    ELSE IF cell.kind = "str" THEN cell.val # ""
    ELSE cell.kind # "none"

\* pd.Timestamp(value).isoformat(): date and time joined by "T"
IsoFormat(cell) == SubSeq(cell.val, 1, 10) \o "T" \o SubSeq(cell.val, 12, Len(cell.val))

\* ------------------------------------------------------------------------
\* sessions: the loop over Session1..Session5 (src/main.py:173-204)
\* ------------------------------------------------------------------------
\* "pd.isna(session_name) or not str(session_name).strip()"
NameSkipped(session_name) == PdIsNa(session_name) \/ Strip(PyStr(session_name)) = ""

\* mutant: the dedupe key built from the name as given
DedupeKey_raw(session_name, session_date) ==
    << PyStr(session_name), IsoFormat(session_date) >>

\* the dedupe key of a slot
DedupeKey(session_name, session_date) ==
    << Lower(Strip(PyStr(session_name))), IsoFormat(session_date) >>

\* iterations idx..5 of the loop, from the list and the seen set so far
RECURSIVE SessionsLoop(_, _, _, _)
SessionsLoop(event, idx, sessions_list, seen_sessions) ==
    IF idx > 5 THEN sessions_list
    ELSE LET session_name == event[idx].name
             session_date == event[idx].date
         IN  IF NameSkipped(session_name) \/ PdIsNa(session_date)
             THEN SessionsLoop(event, idx + 1, sessions_list, seen_sessions)
             ELSE LET normalized_name == Strip(PyStr(session_name))
                      normalized_date == IsoFormat(session_date)
                      dedupe_key == DedupeKey(session_name, session_date)
                  IN  IF dedupe_key \in seen_sessions
                      THEN SessionsLoop(event, idx + 1, sessions_list, seen_sessions)
                      ELSE SessionsLoop(event, idx + 1,
                               Append(sessions_list,
                                      [session_name |-> normalized_name,
                                       session_date |-> normalized_date]),
                               seen_sessions \cup {dedupe_key})

\* the list sessions() returns for a round's event row
SessionsList(event) == SessionsLoop(event, 1, << >>, {})

\* the event rows the de-duplication is checked on: five slots, each one of
\* these: a missing name, a blank name, a missing date, one session under
\* two spellings, the same name on another day, another name on the same day
Day1 == Timestamp("2024-03-01 15:00:00")
Day2 == Timestamp("2024-03-02 15:00:00")
SlotCells ==
    { [name |-> NaN, date |-> Day1],
      [name |-> Text(" "), date |-> Day1],
      [name |-> Text("Qualifying"), date |-> NaT],
      [name |-> Text("Qualifying"), date |-> Day1],
      [name |-> Text("QUALIFYING "), date |-> Day1],
      [name |-> Text("Qualifying"), date |-> Day2],
      [name |-> Text("Race"), date |-> Day1],
      [name |-> Text("Race"), date |-> Day2] }
EventRows == [1..5 -> SlotCells]
NoEvent == [i \in 1..5 |-> [name |-> NaN, date |-> NaT]]


\* ------------------------------------------------------------------------
\* Schedules of the provider
\* ------------------------------------------------------------------------
Years == {2023, 2024}
Rounds == {1, 2}
\* the schedules get_event_schedule can return, by version: version 1 has
\* round 1 only, version 2 has rounds 1 and 2
Schedules == {1, 2}
EventOfRound1 ==
    << [name |-> Text("Practice 1"), date |-> Day1],
       [name |-> Text("Qualifying"), date |-> Day1],
       [name |-> Text("QUALIFYING "), date |-> Day1],
       [name |-> NaN, date |-> NaT],
       [name |-> Text("Race"), date |-> Day2] >>
EventOfRound2 ==
    << [name |-> Text("Practice 1"), date |-> Day1],
       [name |-> Text("Sprint"), date |-> Day1],
       [name |-> Text("Qualifying"), date |-> NaT],
       [name |-> Text(" "), date |-> Day2],
       [name |-> Text("Race"), date |-> Day2] >>
ScheduleRows(schedule) ==
    IF schedule = 1 THEN << [RoundNumber |-> 1, slots |-> EventOfRound1] >>
    ELSE << [RoundNumber |-> 1, slots |-> EventOfRound1],
            [RoundNumber |-> 2, slots |-> EventOfRound2] >>

\* what one call of get_event_schedule does: return a schedule or raise
UpstreamOutcomes ==
    { [ok |-> TRUE, schedule |-> v, exc |-> NoError] : v \in Schedules }
    \cup { [ok |-> FALSE, schedule |-> None, exc |-> e] : e \in TransientErrors }

\* @lru_cache(maxsize=16)
LruMaxSize == 16

\* ------------------------------------------------------------------------
\* _load_session_results: one row of the results (src/main.py:218-252)
\* ------------------------------------------------------------------------
\* normalize_interval (src/main.py:99-106)
normalize_interval(value) ==
    IF value.kind = "none" THEN Missing
    ELSE IF PdIsNa(value) THEN Missing
    ELSE Text(PyStr(value))

\* first_available_interval (src/main.py:109-115), from field number i on
RECURSIVE FirstAvailableFrom(_, _, _)
FirstAvailableFrom(row, fields, i) ==
    IF i > Len(fields) THEN Missing
    ELSE LET value == row[fields[i]]
             normalized == normalize_interval(value)
         IN  IF normalized # Missing THEN normalized
             ELSE FirstAvailableFrom(row, fields, i + 1)

first_available_interval(row, fields) == FirstAvailableFrom(row, fields, 1)

\* the field list of lap_time (src/main.py:242)
LapTimeFields == << "Time", "Q1", "Q2", "Q3" >>

\* (session_obj.name or "").lower()
SessionNameLower(name) == IF Truthy(name) THEN Lower(PyStr(name)) ELSE ""

is_race_or_sprint(session_name) ==
    Contains(session_name, "race") \/ session_name = "sprint"

is_non_race_timed(session_name) ==
    \/ Contains(session_name, "practice")
    \/ Contains(session_name, "qualifying")
    \/ Contains(session_name, "sprint shootout")
    \/ Contains(session_name, "shootout")

\* int(value) raises ValueError on NaN
IntRaises(value) == value.kind = "nan"

\* int(value)
Digits == << "0", "1", "2", "3", "4", "5", "6", "7", "8", "9" >>
PyInt(value) ==
    IF value.kind = "str"
    THEN Num((CHOOSE d \in 1..10 : Digits[d] = value.val) - 1)
    ELSE Num(value.num)

\* "int(x) if x else None"
IntOrNone(value) == IF Truthy(value) THEN PyInt(value) ELSE Missing

\* "float(x) if x is not None else None"; float(NaN) is NaN
FloatOrNone(value) ==
    IF value.kind = "none" THEN Missing
    ELSE IF value.kind = "nan" THEN NaN
    ELSE Num(value.num)

\* mutant: only the integer 1 counts as the first position
PositionIsOne_int(row) ==
    row["Position"].kind = "num" /\ row["Position"].num = 1

\* "row.get("Position") in [1, "1"]"
PositionIsOne(row) ==
    \/ (row["Position"].kind = "num" /\ row["Position"].num = 1)
    \/ (row["Position"].kind = "str" /\ row["Position"].val = "1")

\* the int() conversions of the row raise
RowRaises(row) ==
    \E f \in {"Position", "Laps", "GridPosition"} : Truthy(row[f]) /\ IntRaises(row[f])

\* the dictionary built for one row of session_obj.results
ResultRow(name, row) ==
    LET session_name == SessionNameLower(name)
        race == is_race_or_sprint(session_name)
        timed == is_non_race_timed(session_name)
    IN  [position |-> IntOrNone(row["Position"]),
         laps |-> IntOrNone(row["Laps"]),
         grid_position |-> IntOrNone(row["GridPosition"]),
         points |-> FloatOrNone(row["Points"]),
         lap_time |-> IF timed THEN first_available_interval(row, LapTimeFields) ELSE Missing,
         race_time |-> IF race THEN first_available_interval(row, << "Time" >>) ELSE Missing,
         gap_to_winner |->
            IF race /\ ~PositionIsOne(row)
            THEN first_available_interval(row, << "GapToLeader", "Time" >>)
            ELSE IF race /\ PositionIsOne(row) THEN Text("0:00:00") ELSE Missing]

NoResultRow ==
    [position |-> Missing, laps |-> Missing, grid_position |-> Missing, points |-> Missing,
     lap_time |-> Missing, race_time |-> Missing, gap_to_winner |-> Missing]

\* the sessions and rows the normalizer is checked on
SessionNames ==
    { Missing, Text("Practice 1"), Text("Qualifying"), Text("Sprint Qualifying"),
      Text("Sprint Shootout"), Text("Sprint"), Text("Race") }
RowFields ==
    { "Position", "Laps", "GridPosition", "Points", "Time", "Q1", "Q2", "Q3", "GapToLeader" }
FieldValues(f) ==
    IF f = "Position" THEN {Num(1), Text("1"), Num(2), Num(0), NaN, Missing}
    ELSE IF f = "Laps" THEN {Num(57), Num(0), NaN}
    ELSE IF f = "GridPosition" THEN {Num(3), Text(""), Missing}
    ELSE IF f = "Points" THEN {Num(25), Num(0), NaN, Missing}
    ELSE IF f = "Time" THEN {Timedelta("0 days 01:31:44"), NaT}
    ELSE IF f = "Q1" THEN {Timedelta("0 days 00:01:30"), NaT, Missing}
    ELSE IF f = "Q2" THEN {Timedelta("0 days 00:01:29"), NaT}
    ELSE IF f = "Q3" THEN {Timedelta("0 days 00:01:28"), NaT}
    ELSE {Timedelta("0 days 00:00:05"), NaT, Missing}
ResultRows ==
    [Position : FieldValues("Position"), Laps : FieldValues("Laps"),
     GridPosition : FieldValues("GridPosition"), Points : FieldValues("Points"),
     Time : FieldValues("Time"), Q1 : FieldValues("Q1"), Q2 : FieldValues("Q2"),
     Q3 : FieldValues("Q3"), GapToLeader : FieldValues("GapToLeader")]
NoRow == [f \in RowFields |-> Missing]

VARIABLES
    res_name,         \* _load_session_results: session_obj.name
    res_row,          \* _load_session_results: a row of session_obj.results
    res_out,          \* _load_session_results: the dictionary built for the row
    res_state,        \* _load_session_results: "input", "returned" or "raised"
    memo,             \* lru_cache of get_schedule: [year, value], most recent last
    fetches,          \* calls of get_event_schedule so far
    executed_out,     \* per year: what the latest executed get_schedule of this process did
    sched_calls,      \* calls of get_schedule so far
    sched_out,        \* the last call of get_schedule: what it met and did
    http,             \* response of the last rounds / sessions request
    rounds_list,      \* rounds: the list returned
    event,            \* sessions: the event row of the requested round
    sessions_list,    \* sessions: the list returned
    sessions_done,    \* sessions: the handler has returned
    api_cache,        \* diskcache store: key -> NoEntry or [value, expire_time]
    now,              \* wall clock, seconds
    pc,               \* position of each handler
    call,             \* handler arguments: [dom, key]
    attempt,          \* load_session_with_retry: loop variable
    sleeps,           \* durations of the sleep() calls of the current call
    last_error,       \* load_session_with_retry: last_error
    thrown,           \* the exception the latest failed attempt of the call raised
    session_obj,      \* loaded session handle
    response_payload, \* computed payload
    result,           \* response of the last finished call
    via,              \* how the last finished call was answered
    loads,            \* successful upstream loads so far
    lastSuccess,      \* per cache slot: payload of the latest successful compute
    computed,         \* the payloads computed so far, in the order the computes finished
    clobbered,        \* another call overwrote the fresh entry this call wrote
    raced,            \* per cache slot: a compute finished while an earlier one was unwritten
    calls,            \* calls started so far
    ticks             \* clock movements so far

vars == << res_name, res_row, res_out, res_state, memo, fetches, executed_out, sched_calls, sched_out, http, rounds_list,
           event, sessions_list, sessions_done, api_cache, now, pc, call, attempt, sleeps, last_error, thrown, session_obj,
           response_payload, result, via, loads, lastSuccess, computed, clobbered, raced, calls, ticks >>

\* the variables of the tiered cache, of the schedule accessor and of the
\* sessions view
cache_vars == << api_cache, now, pc, call, attempt, sleeps, last_error, thrown, session_obj,
                 response_payload, result, via, loads, lastSuccess, computed, clobbered, raced,
                 calls, ticks >>
schedule_vars == << memo, fetches, executed_out, sched_calls, sched_out, http, rounds_list >>
sessions_vars == << event, sessions_list, sessions_done >>
results_vars == << res_name, res_row, res_out, res_state >>

\* ------------------------------------------------------------------------
\* Cache store (diskcache.Cache get/set with expire)
\* ------------------------------------------------------------------------
Slots == Domains \X Keys
fresh_cache_key(dom, key) == << dom, "fresh", key >>
stale_cache_key(dom, key) == << dom, "stale", key >>
schedule_cache_key(year) == << "schedule", year >>
CacheKeys == { fresh_cache_key(s[1], s[2]) : s \in Slots }
             \cup { stale_cache_key(s[1], s[2]) : s \in Slots }
             \cup { schedule_cache_key(y) : y \in Years }

\* mutant: an entry is returned whatever its expiry time
CacheGet_noexpiry(cache, key, t) ==
    IF cache[key] # NoEntry THEN cache[key].value ELSE None

\* api_cache.get(key): the value, or None when missing or expired
CacheGet(cache, key, t) ==
    IF cache[key] # NoEntry /\ cache[key].expire_time > t
    THEN cache[key].value
    ELSE None

\* api_cache.set(key, value, expire=ttl)
CacheSet(cache, key, value, ttl, t) ==
    [cache EXCEPT ![key] = [value |-> value, expire_time |-> t + ttl]]

\* mutant: the fresh entry written with the stale TTL
FreshTTL_stale(dom) ==
    IF dom = "session_results" THEN SESSION_RESULTS_STALE_TTL ELSE CIRCUIT_MAP_STALE_TTL

FreshTTL(dom) ==
    IF dom = "session_results" THEN SESSION_RESULTS_FRESH_TTL ELSE CIRCUIT_MAP_FRESH_TTL
\* mutant: the stale entries written with the one-hour TTL
StaleTTL_hour(dom) == SESSION_RESULTS_FRESH_TTL

StaleTTL(dom) ==
    IF dom = "session_results" THEN SESSION_RESULTS_STALE_TTL ELSE CIRCUIT_MAP_STALE_TTL

\* ------------------------------------------------------------------------
\* Responses
\* ------------------------------------------------------------------------
Ok(payload) == [status |-> 200, body |-> payload, error |-> "", details |-> ""]
ErrorLabel(dom) ==
    IF dom = "session_results" THEN "Failed to fetch session results"
    ELSE "Failed to fetch circuit map"
\* mutant: the failure reported as an internal error without the message
BadGateway_500(dom, exc) ==
    [status |-> 500, body |-> None, error |-> ErrorLabel(dom), details |-> ""]

BadGateway(dom, exc) ==
    [status |-> 502, body |-> None, error |-> ErrorLabel(dom), details |-> Str(exc)]

NoCall == [dom |-> "", key |-> ""]

\* the state of the cache and of the handlers after start-up
CacheInit ==
    /\ api_cache = [k \in CacheKeys |-> NoEntry]
    /\ now = 0
    /\ pc = [c \in Callers |-> "idle"]
    /\ call = [c \in Callers |-> NoCall]
    /\ attempt = [c \in Callers |-> 0]
    /\ sleeps = [c \in Callers |-> << >>]
    /\ last_error = [c \in Callers |-> NoError]
    /\ thrown = [c \in Callers |-> NoError]
    /\ session_obj = [c \in Callers |-> NoSession]
    /\ response_payload = [c \in Callers |-> None]
    /\ result = [c \in Callers |-> NoResult]
    /\ via = [c \in Callers |-> "none"]
    /\ loads = 0
    /\ lastSuccess = [s \in Slots |-> None]
    /\ computed = << >>
    /\ clobbered = [c \in Callers |-> FALSE]
    /\ raced = [s \in Slots |-> FALSE]
    /\ calls = 0
    /\ ticks = 0

NoScheduleCall ==
    [year |-> 0, executed |-> FALSE, upstream_ok |-> FALSE, fetched |-> None,
     exc |-> NoError, returned |-> None, raised |-> NoError]
NoHttp == [handler |-> "", status |-> 0, error |-> "", details |-> ""]

ScheduleInit ==
    /\ memo = << >>
    /\ fetches = 0
    /\ executed_out = [y \in Years |-> NoScheduleCall]
    /\ sched_calls = 0
    /\ sched_out = NoScheduleCall
    /\ http = NoHttp
    /\ rounds_list = << >>

ResultsInit ==
    /\ res_name = Missing
    /\ res_row = NoRow
    /\ res_out = NoResultRow
    /\ res_state = "input"

Init ==
    /\ CacheInit
    /\ ScheduleInit
    /\ ResultsInit
    /\ event = NoEvent
    /\ sessions_list = << >>
    /\ sessions_done = FALSE

\* ------------------------------------------------------------------------
\* session_results / circuit_map (src/main.py:255-281, 328-350)
\* ------------------------------------------------------------------------
\* mutant: the fresh lookup ignored, every call recomputes
FreshHit_never(cached_fresh) == FALSE

\* "if cached_fresh is not None" (src/main.py:261, 334)
FreshHit(cached_fresh) == cached_fresh # None

\* mutant: the stale fallback left out
StaleHit_never(cached_stale) == FALSE

\* "if cached_stale is not None" (src/main.py:275, 344)
StaleHit(cached_stale) == cached_stale # None

\* the locals of a handler invocation, gone when it returns
Locals(c) ==
    /\ attempt' = [attempt EXCEPT ![c] = 0]
    /\ sleeps' = [sleeps EXCEPT ![c] = << >>]
    /\ last_error' = [last_error EXCEPT ![c] = NoError]
    /\ thrown' = [thrown EXCEPT ![c] = NoError]
    /\ session_obj' = [session_obj EXCEPT ![c] = NoSession]
    /\ response_payload' = [response_payload EXCEPT ![c] = None]

\* mutant: a hit writes the entry back and so extends its life
Request_refresh(c, dom, key) ==
    /\ pc[c] = "idle"
    /\ \A other \in Callers : other < c => pc[other] # "idle"
    /\ calls < MaxCalls
    /\ calls' = calls + 1
    /\ call' = [call EXCEPT ![c] = [dom |-> dom, key |-> key]]
    /\ UNCHANGED << sleeps, last_error, thrown, session_obj, response_payload >>
    /\ LET cached_fresh == CacheGet(api_cache, fresh_cache_key(dom, key), now)
       IN IF FreshHit(cached_fresh)
          THEN /\ result' = [result EXCEPT ![c] = Ok(cached_fresh)]
               /\ via' = [via EXCEPT ![c] = "fresh"]
               /\ attempt' = [attempt EXCEPT ![c] = 0]
               /\ pc' = pc
               /\ api_cache' = CacheSet(api_cache, fresh_cache_key(dom, key), cached_fresh,
                                        FreshTTL(dom), now)
          ELSE /\ result' = [result EXCEPT ![c] = NoResult]
               /\ via' = [via EXCEPT ![c] = "none"]
               /\ attempt' = [attempt EXCEPT ![c] = 1]
               /\ pc' = [pc EXCEPT ![c] = "attempt"]
               /\ UNCHANGED api_cache
    /\ UNCHANGED << now, loads, lastSuccess, computed, clobbered, raced, ticks >>

\* Entry of the handler: the fresh-tier lookup and, on a hit, the return.
Request(c, dom, key) ==
    /\ pc[c] = "idle"
    /\ \A other \in Callers : other < c => pc[other] # "idle"
    /\ calls < MaxCalls
    /\ calls' = calls + 1
    /\ call' = [call EXCEPT ![c] = [dom |-> dom, key |-> key]]
    /\ UNCHANGED << sleeps, last_error, thrown, session_obj, response_payload >>
    /\ LET cached_fresh == CacheGet(api_cache, fresh_cache_key(dom, key), now)
       IN IF FreshHit(cached_fresh)
          THEN /\ result' = [result EXCEPT ![c] = Ok(cached_fresh)]
               /\ via' = [via EXCEPT ![c] = "fresh"]
               /\ attempt' = [attempt EXCEPT ![c] = 0]
               /\ pc' = pc
          ELSE /\ result' = [result EXCEPT ![c] = NoResult]
               /\ via' = [via EXCEPT ![c] = "none"]
               /\ attempt' = [attempt EXCEPT ![c] = 1]
               /\ pc' = [pc EXCEPT ![c] = "attempt"]
    /\ UNCHANGED << api_cache, now, loads, lastSuccess, computed, clobbered, raced, ticks >>

\* load_session_with_retry: one successful fetch+load (src/main.py:69-76)
\* what the loaded data lacks: a fastest lap (matters to circuit_map only) or
\* a number in an integer column (matters to session_results only)
Defects(dom) == IF dom = "circuit_map" THEN {"none", "no_lap"} ELSE {"none", "nan_field"}
AttemptOk(c, defect) ==
    /\ pc[c] = "attempt"
    /\ defect \in Defects(call[c].dom)
    /\ call[c].key \notin AbsentKeys
    /\ loads < MaxLoads
    /\ loads' = loads + 1
    /\ session_obj' = [session_obj EXCEPT ![c] =
            [id |-> loads + 1, attempt |-> attempt[c], defect |-> defect]]
    /\ pc' = [pc EXCEPT ![c] = "build"]
    /\ UNCHANGED << api_cache, now, call, attempt, sleeps, last_error, thrown,
                    response_payload, result, via, lastSuccess, computed, clobbered, raced, calls, ticks >>

\* mutant: the loop runs over range(1, MAX_SESSION_LOAD_ATTEMPTS)
AttemptFail_short(c, exc) ==
    /\ pc[c] = "attempt"
    /\ IF call[c].key \in AbsentKeys
       THEN exc = NotFoundError
       ELSE exc \in TransientErrors
    /\ last_error' = [last_error EXCEPT ![c] = exc]
    /\ thrown' = [thrown EXCEPT ![c] = exc]
    /\ pc' = [pc EXCEPT ![c] =
            IF attempt[c] < MAX_SESSION_LOAD_ATTEMPTS - 1 THEN "sleep" ELSE "except"]
    /\ UNCHANGED << api_cache, now, call, attempt, sleeps, session_obj,
                    response_payload, result, via, loads, lastSuccess, computed, clobbered,
                    raced, calls, ticks >>

\* mutant: the first error is kept ("if last_error is None: last_error = exc")
AttemptFail_first(c, exc) ==
    /\ pc[c] = "attempt"
    /\ IF call[c].key \in AbsentKeys
       THEN exc = NotFoundError
       ELSE exc \in TransientErrors
    /\ last_error' = [last_error EXCEPT ![c] = IF @ = NoError THEN exc ELSE @]
    /\ thrown' = [thrown EXCEPT ![c] = exc]
    /\ pc' = [pc EXCEPT ![c] =
            IF attempt[c] < MAX_SESSION_LOAD_ATTEMPTS THEN "sleep" ELSE "except"]
    /\ UNCHANGED << api_cache, now, call, attempt, sleeps, session_obj,
                    response_payload, result, via, loads, lastSuccess, computed, clobbered,
                    raced, calls, ticks >>

\* load_session_with_retry: one failed fetch+load (src/main.py:77-82)
AttemptFail(c, exc) ==
    /\ pc[c] = "attempt"
    /\ IF call[c].key \in AbsentKeys
       THEN exc = NotFoundError
       ELSE exc \in TransientErrors
    /\ last_error' = [last_error EXCEPT ![c] = exc]
    /\ thrown' = [thrown EXCEPT ![c] = exc]
    /\ pc' = [pc EXCEPT ![c] =
            IF attempt[c] < MAX_SESSION_LOAD_ATTEMPTS THEN "sleep" ELSE "except"]
    /\ UNCHANGED << api_cache, now, call, attempt, sleeps, session_obj,
                    response_payload, result, via, loads, lastSuccess, computed, clobbered, raced, calls, ticks >>

\* mutant: the delay grows with the attempt number
Sleep_backoff(c) ==
    /\ pc[c] = "sleep"
    /\ sleeps' = [sleeps EXCEPT ![c] = Append(@, SESSION_LOAD_RETRY_DELAY_SECONDS * attempt[c])]
    /\ attempt' = [attempt EXCEPT ![c] = @ + 1]
    /\ pc' = [pc EXCEPT ![c] = "attempt"]
    /\ UNCHANGED << api_cache, now, call, last_error, thrown, session_obj, response_payload,
                    result, via, loads, lastSuccess, computed, clobbered, raced, calls, ticks >>

\* load_session_with_retry: sleep(SESSION_LOAD_RETRY_DELAY_SECONDS) and the
\* next iteration of the loop (src/main.py:79-80, 67)
Sleep(c) ==
    /\ pc[c] = "sleep"
    /\ sleeps' = [sleeps EXCEPT ![c] = Append(@, SESSION_LOAD_RETRY_DELAY_SECONDS)]
    /\ attempt' = [attempt EXCEPT ![c] = @ + 1]
    /\ pc' = [pc EXCEPT ![c] = "attempt"]
    /\ UNCHANGED << api_cache, now, call, last_error, thrown, session_obj, response_payload,
                    result, via, loads, lastSuccess, computed, clobbered, raced, calls, ticks >>

\* the error _load_session_results / _load_circuit_map raises on a loaded
\* session, or None (src/main.py:229-240, 295-297)
BuildError(dom, handle) ==
    IF dom = "circuit_map" /\ handle.defect = "no_lap" THEN NoLapError
    ELSE IF dom = "session_results" /\ handle.defect = "nan_field" THEN NanFieldError
    ELSE NoError

\* the payload computed from a loaded session
Payload(handle) == handle.id

\* _load_session_results / _load_circuit_map after the load
Build(c) ==
    /\ pc[c] = "build"
    /\ LET exc == BuildError(call[c].dom, session_obj[c])
       IN IF exc = NoError
          THEN /\ response_payload' = [response_payload EXCEPT ![c] = Payload(session_obj[c])]
               /\ lastSuccess' = [lastSuccess EXCEPT ![<< call[c].dom, call[c].key >>] =
                                     Payload(session_obj[c])]
               /\ computed' = Append(computed, Payload(session_obj[c]))
               /\ raced' = [raced EXCEPT ![<< call[c].dom, call[c].key >>] =
                               @ \/ \E o \in Callers \ {c} :
                                        /\ pc[o] \in {"set_fresh", "set_stale"}
                                        /\ call[o].dom = call[c].dom
                                        /\ call[o].key = call[c].key]
               /\ pc' = [pc EXCEPT ![c] = "set_fresh"]
               /\ UNCHANGED last_error
          ELSE /\ last_error' = [last_error EXCEPT ![c] = exc]
               /\ pc' = [pc EXCEPT ![c] = "except"]
               /\ UNCHANGED << response_payload, lastSuccess, computed, raced >>
    /\ UNCHANGED << api_cache, now, call, attempt, sleeps, thrown, session_obj,
                    result, via, loads, clobbered, calls, ticks >>

\* api_cache.set(fresh_cache_key, ...) (src/main.py:266-268, 339)
SetFresh(c) ==
    /\ pc[c] = "set_fresh"
    /\ api_cache' = CacheSet(api_cache, fresh_cache_key(call[c].dom, call[c].key),
                             response_payload[c], FreshTTL(call[c].dom), now)
    /\ pc' = [pc EXCEPT ![c] = "set_stale"]
    /\ clobbered' = [o \in Callers |->
            IF o = c THEN FALSE
            ELSE clobbered[o] \/ (pc[o] = "set_stale" /\ call[o].dom = call[c].dom
                                                     /\ call[o].key = call[c].key)]
    /\ UNCHANGED << now, call, attempt, sleeps, last_error, thrown, session_obj,
                    response_payload, result, via, loads, lastSuccess, computed, raced, calls, ticks >>

\* mutant: the handler returns what the fresh tier holds after its writes
SetStale_reread(c) ==
    /\ pc[c] = "set_stale"
    /\ api_cache' = CacheSet(api_cache, stale_cache_key(call[c].dom, call[c].key),
                             response_payload[c], StaleTTL(call[c].dom), now)
    /\ result' = [result EXCEPT ![c] =
            Ok(CacheGet(api_cache, fresh_cache_key(call[c].dom, call[c].key), now))]
    /\ via' = [via EXCEPT ![c] = "computed"]
    /\ pc' = [pc EXCEPT ![c] = "idle"]
    /\ Locals(c)
    /\ UNCHANGED << now, call, loads, lastSuccess, computed, clobbered, raced, calls, ticks >>

\* api_cache.set(stale_cache_key, ...) and the return (src/main.py:269-272, 340-341)
SetStale(c) ==
    /\ pc[c] = "set_stale"
    /\ api_cache' = CacheSet(api_cache, stale_cache_key(call[c].dom, call[c].key),
                             response_payload[c], StaleTTL(call[c].dom), now)
    /\ result' = [result EXCEPT ![c] = Ok(response_payload[c])]
    /\ via' = [via EXCEPT ![c] = "computed"]
    /\ pc' = [pc EXCEPT ![c] = "idle"]
    /\ Locals(c)
    /\ UNCHANGED << now, call, loads, lastSuccess, computed, clobbered, raced, calls, ticks >>

\* mutant: a stale hit on the failure path rewrites the stale entry
Except_repair(c) ==
    /\ pc[c] = "except"
    /\ LET sk == stale_cache_key(call[c].dom, call[c].key)
           cached_stale == CacheGet(api_cache, sk, now)
       IN IF StaleHit(cached_stale)
          THEN /\ result' = [result EXCEPT ![c] = Ok(cached_stale)]
               /\ via' = [via EXCEPT ![c] = "stale"]
               /\ api_cache' = CacheSet(api_cache, sk, cached_stale, StaleTTL(call[c].dom), now)
          ELSE /\ result' = [result EXCEPT ![c] = BadGateway(call[c].dom, last_error[c])]
               /\ via' = [via EXCEPT ![c] = "error"]
               /\ UNCHANGED api_cache
    /\ pc' = [pc EXCEPT ![c] = "idle"]
    /\ Locals(c)
    /\ UNCHANGED << now, call, loads, lastSuccess, computed, clobbered, raced, calls, ticks >>

\* the except branch: stale lookup, else HTTP 502 (src/main.py:273-281, 342-350)
Except(c) ==
    /\ pc[c] = "except"
    /\ LET cached_stale == CacheGet(api_cache, stale_cache_key(call[c].dom, call[c].key), now)
       IN IF StaleHit(cached_stale)
          THEN /\ result' = [result EXCEPT ![c] = Ok(cached_stale)]
               /\ via' = [via EXCEPT ![c] = "stale"]
          ELSE /\ result' = [result EXCEPT ![c] = BadGateway(call[c].dom, last_error[c])]
               /\ via' = [via EXCEPT ![c] = "error"]
    /\ pc' = [pc EXCEPT ![c] = "idle"]
    /\ Locals(c)
    /\ UNCHANGED << api_cache, now, call, loads, lastSuccess, computed, clobbered, raced, calls, ticks >>

\* time passes; no handler is between its two cache writes, which are
\* consecutive statements
Tick(d) ==
    /\ ticks < MaxTicks
    /\ \A c \in Callers : pc[c] # "set_stale"
    /\ ticks' = ticks + 1
    /\ now' = now + d
    /\ UNCHANGED << api_cache, pc, call, attempt, sleeps, last_error, thrown, session_obj,
                    response_payload, result, via, loads, lastSuccess, computed, clobbered, raced, calls >>

\* the schedule, the session list and the result row are left alone
OtherUnchanged == UNCHANGED << schedule_vars, sessions_vars, results_vars >>

Next ==
    \/ \E c \in Callers, dom \in Domains, key \in Keys :
           Request(c, dom, key) /\ OtherUnchanged
    \/ \E c \in Callers, defect \in {"none", "no_lap", "nan_field"} :
           AttemptOk(c, defect) /\ OtherUnchanged
    \/ \E c \in Callers, exc \in TransientErrors \cup {NotFoundError} :
           AttemptFail(c, exc) /\ OtherUnchanged
    \/ \E c \in Callers : Sleep(c) /\ OtherUnchanged
    \/ \E c \in Callers : Build(c) /\ OtherUnchanged
    \/ \E c \in Callers : SetFresh(c) /\ OtherUnchanged
    \/ \E c \in Callers : SetStale(c) /\ OtherUnchanged
    \/ \E c \in Callers : Except(c) /\ OtherUnchanged
    \/ \E d \in TimeSteps : Tick(d) /\ OtherUnchanged

Spec == Init /\ [][Next]_vars

\* ------------------------------------------------------------------------
\* get_schedule, rounds, sessions (src/main.py:42-53, 134-204)
\* ------------------------------------------------------------------------
\* lru_cache: the position of the year in the memo, 0 when absent
MemoIndex(year) ==
    IF \E i \in 1..Len(memo) : memo[i].year = year
    THEN CHOOSE i \in 1..Len(memo) : memo[i].year = year
    ELSE 0

\* lru_cache: a hit makes the entry the most recently used
MemoTouch(i) ==
    SubSeq(memo, 1, i - 1) \o SubSeq(memo, i + 1, Len(memo)) \o << memo[i] >>

\* lru_cache: a returned value is stored, the least recently used entry
\* leaves when the memo is full
MemoPut(year, value) ==
    LET added == Append(memo, [year |-> year, value |-> value])
    IN  IF Len(added) > LruMaxSize THEN Tail(added) ELSE added

\* mutant: a failed fetch raises without a look at the persisted schedule
get_schedule_nofallback(year, up) ==
    LET i == MemoIndex(year)
        key == schedule_cache_key(year)
    IN  IF i # 0
        THEN [memo |-> MemoTouch(i), api_cache |-> api_cache,
              out |-> [year |-> year, executed |-> FALSE, upstream_ok |-> FALSE,
                       fetched |-> None, exc |-> NoError,
                       returned |-> memo[i].value, raised |-> NoError]]
        ELSE IF up.ok
        THEN [memo |-> MemoPut(year, up.schedule),
              api_cache |-> CacheSet(api_cache, key, up.schedule, SCHEDULE_CACHE_TTL, now),
              out |-> [year |-> year, executed |-> TRUE, upstream_ok |-> TRUE,
                       fetched |-> up.schedule, exc |-> NoError,
                       returned |-> up.schedule, raised |-> NoError]]
        ELSE [memo |-> memo, api_cache |-> api_cache,
              out |-> [year |-> year, executed |-> TRUE, upstream_ok |-> FALSE,
                       fetched |-> None, exc |-> up.exc,
                       returned |-> None, raised |-> up.exc]]

\* mutant: only a fetched schedule is memoized, the persisted fallback is not
get_schedule_fetchmemo(year, up) ==
    LET i == MemoIndex(year)
        key == schedule_cache_key(year)
    IN  IF i # 0
        THEN [memo |-> MemoTouch(i), api_cache |-> api_cache,
              out |-> [year |-> year, executed |-> FALSE, upstream_ok |-> FALSE,
                       fetched |-> None, exc |-> NoError,
                       returned |-> memo[i].value, raised |-> NoError]]
        ELSE IF up.ok
        THEN [memo |-> MemoPut(year, up.schedule),
              api_cache |-> CacheSet(api_cache, key, up.schedule, SCHEDULE_CACHE_TTL, now),
              out |-> [year |-> year, executed |-> TRUE, upstream_ok |-> TRUE,
                       fetched |-> up.schedule, exc |-> NoError,
                       returned |-> up.schedule, raised |-> NoError]]
        ELSE LET cached_schedule == CacheGet(api_cache, key, now)
             IN  IF cached_schedule # None
                 THEN [memo |-> memo, api_cache |-> api_cache,
                       out |-> [year |-> year, executed |-> TRUE, upstream_ok |-> FALSE,
                                fetched |-> None, exc |-> up.exc,
                                returned |-> cached_schedule, raised |-> NoError]]
                 ELSE [memo |-> memo, api_cache |-> api_cache,
                       out |-> [year |-> year, executed |-> TRUE, upstream_ok |-> FALSE,
                                fetched |-> None, exc |-> up.exc,
                                returned |-> None, raised |-> up.exc]]

\* get_schedule(year), when get_event_schedule would do "up": the new memo
\* and cache, and what the call met and did
get_schedule(year, up) ==
    LET i == MemoIndex(year)
        key == schedule_cache_key(year)
    IN  IF i # 0
        THEN [memo |-> MemoTouch(i), api_cache |-> api_cache,
              out |-> [year |-> year, executed |-> FALSE, upstream_ok |-> FALSE,
                       fetched |-> None, exc |-> NoError,
                       returned |-> memo[i].value, raised |-> NoError]]
        ELSE IF up.ok
        THEN [memo |-> MemoPut(year, up.schedule),
              api_cache |-> CacheSet(api_cache, key, up.schedule, SCHEDULE_CACHE_TTL, now),
              out |-> [year |-> year, executed |-> TRUE, upstream_ok |-> TRUE,
                       fetched |-> up.schedule, exc |-> NoError,
                       returned |-> up.schedule, raised |-> NoError]]
        ELSE LET cached_schedule == CacheGet(api_cache, key, now)
             IN  IF cached_schedule # None
                 THEN [memo |-> MemoPut(year, cached_schedule), api_cache |-> api_cache,
                       out |-> [year |-> year, executed |-> TRUE, upstream_ok |-> FALSE,
                                fetched |-> None, exc |-> up.exc,
                                returned |-> cached_schedule, raised |-> NoError]]
                 ELSE [memo |-> memo, api_cache |-> api_cache,
                       out |-> [year |-> year, executed |-> TRUE, upstream_ok |-> FALSE,
                                fetched |-> None, exc |-> up.exc,
                                returned |-> None, raised |-> up.exc]]

\* the rows of the schedule whose RoundNumber is the round
EventsOfRound(schedule, round) ==
    SelectSeq(ScheduleRows(schedule), LAMBDA row : row.RoundNumber = round)

tiered_vars == << pc, call, attempt, sleeps, last_error, thrown, session_obj, response_payload,
                 result, via, loads, lastSuccess, computed, clobbered, raced, calls >>

\* GET /rounds (src/main.py:134-156)
RoundsRequest(year, up) ==
    /\ sched_calls < MaxScheduleCalls
    /\ sched_calls' = sched_calls + 1
    /\ LET g == get_schedule(year, up)
       IN  /\ memo' = g.memo
           /\ api_cache' = g.api_cache
           /\ sched_out' = g.out
           /\ fetches' = IF g.out.executed THEN fetches + 1 ELSE fetches
           /\ executed_out' = IF g.out.executed THEN [executed_out EXCEPT ![year] = g.out]
                              ELSE executed_out
           /\ IF g.out.raised # NoError
              THEN /\ http' = [handler |-> "rounds", status |-> 502,
                               error |-> "Failed to fetch rounds",
                               details |-> Str(g.out.raised)]
                   /\ rounds_list' = << >>
              ELSE /\ http' = [handler |-> "rounds", status |-> 200,
                               error |-> "", details |-> ""]
                   /\ rounds_list' = [n \in 1..Len(ScheduleRows(g.out.returned)) |->
                                         ScheduleRows(g.out.returned)[n].RoundNumber]
    /\ UNCHANGED << now, ticks, tiered_vars, event, sessions_list, sessions_done,
                    results_vars >>

\* GET /sessions (src/main.py:159-204)
SessionsRequest(year, round, up) ==
    /\ sched_calls < MaxScheduleCalls
    /\ sched_calls' = sched_calls + 1
    /\ LET g == get_schedule(year, up)
       IN  /\ memo' = g.memo
           /\ api_cache' = g.api_cache
           /\ sched_out' = g.out
           /\ fetches' = IF g.out.executed THEN fetches + 1 ELSE fetches
           /\ executed_out' = IF g.out.executed THEN [executed_out EXCEPT ![year] = g.out]
                              ELSE executed_out
           /\ IF g.out.raised # NoError
              THEN /\ http' = [handler |-> "sessions", status |-> 502,
                               error |-> "Failed to fetch sessions",
                               details |-> Str(g.out.raised)]
                   /\ event' = NoEvent
                   /\ sessions_list' = << >>
                   /\ sessions_done' = FALSE
              ELSE LET rows == EventsOfRound(g.out.returned, round)
                   IN  IF rows = << >>
                       THEN /\ http' = [handler |-> "sessions", status |-> 404,
                                        error |-> "Round not found", details |-> ""]
                            /\ event' = NoEvent
                            /\ sessions_list' = << >>
                            /\ sessions_done' = FALSE
                       ELSE /\ http' = [handler |-> "sessions", status |-> 200,
                                        error |-> "", details |-> ""]
                            /\ event' = rows[1].slots
                            /\ sessions_list' = SessionsList(rows[1].slots)
                            /\ sessions_done' = TRUE
    /\ UNCHANGED << now, ticks, tiered_vars, rounds_list, results_vars >>

\* the server process is restarted: the lru_cache starts empty, the
\* diskcache directory still holds its entries (src/main.py:18-24, 42)
Restart ==
    /\ memo # << >>
    /\ memo' = << >>
    /\ executed_out' = [y \in Years |-> NoScheduleCall]
    /\ UNCHANGED << fetches, sched_calls, sched_out, http, rounds_list, sessions_vars,
                    cache_vars, results_vars >>

\* time passes between requests
ScheduleTimeSteps == {CIRCUIT_MAP_FRESH_TTL, SCHEDULE_CACHE_TTL}

NextSchedule ==
    \/ \E year \in Years, up \in UpstreamOutcomes : RoundsRequest(year, up)
    \/ \E year \in Years, round \in Rounds, up \in UpstreamOutcomes :
           SessionsRequest(year, round, up)
    \/ \E d \in ScheduleTimeSteps :
           Tick(d) /\ OtherUnchanged
    \/ Restart

SpecSchedule == Init /\ [][NextSchedule]_vars

\* ------------------------------------------------------------------------
\* The session list of one event row
\* ------------------------------------------------------------------------
InitSessions ==
    /\ CacheInit
    /\ ScheduleInit
    /\ ResultsInit
    /\ event \in EventRows
    /\ sessions_list = << >>
    /\ sessions_done = FALSE

\* sessions() from the event row on (src/main.py:173-204)
SessionsOfEvent ==
    /\ ~sessions_done
    /\ sessions_list' = SessionsList(event)
    /\ sessions_done' = TRUE
    /\ UNCHANGED << event, cache_vars, schedule_vars, results_vars >>

NextSessions == SessionsOfEvent

SpecSessions == InitSessions /\ [][NextSessions]_vars

\* ------------------------------------------------------------------------
\* The result row of one session and one provider row
\* ------------------------------------------------------------------------
InitResults ==
    /\ CacheInit
    /\ ScheduleInit
    /\ event = NoEvent
    /\ sessions_list = << >>
    /\ sessions_done = FALSE
    /\ res_name \in SessionNames
    /\ res_row \in ResultRows
    /\ res_out = NoResultRow
    /\ res_state = "input"

\* the dictionary is built (src/main.py:229-250)
BuildRow ==
    /\ res_state = "input"
    /\ ~RowRaises(res_row)
    /\ res_out' = ResultRow(res_name, res_row)
    /\ res_state' = "returned"
    /\ UNCHANGED << res_name, res_row, cache_vars, schedule_vars, sessions_vars >>

\* an int() conversion raises ValueError (src/main.py:231, 237, 239)
BuildRowRaises ==
    /\ res_state = "input"
    /\ RowRaises(res_row)
    /\ res_state' = "raised"
    /\ UNCHANGED << res_name, res_row, res_out, cache_vars, schedule_vars, sessions_vars >>

NextResults == BuildRow \/ BuildRowRaises

SpecResults == InitResults /\ [][NextResults]_vars

\* ------------------------------------------------------------------------
\* Properties of the tiered cache
\* ------------------------------------------------------------------------
\* an unexpired entry is stored under the cache key
EntryLive(k) == api_cache[k] # NoEntry /\ api_cache[k].expire_time > now

\* the handler that takes the request of a step that starts a call
Requester ==
    CHOOSE c \in Callers :
        pc[c] = "idle" /\ \A o \in Callers : o < c => pc[o] # "idle"

\* the TTLs of the cache key table of the specification, in seconds
TableFreshTTL(dom) == IF dom = "session_results" THEN 3600 ELSE 86400
TableStaleTTL(dom) == IF dom = "session_results" THEN 604800 ELSE 2592000

\* C1 (fresh-hit short-circuit): a call that starts while an unexpired fresh
\* entry exists for its key returns that entry's payload at once, makes no
\* load attempt, no sleep and no upstream load.
C1_FreshHitShortCircuit ==
    [][calls' = calls + 1 =>
        LET c == Requester
            k == << call'[c].dom, "fresh", call'[c].key >>
        IN  EntryLive(k) =>
                /\ result'[c].status = 200
                /\ result'[c].body = api_cache[k].value
                /\ pc'[c] = "idle"
                /\ attempt'[c] = 0
                /\ sleeps'[c] = << >>
                /\ loads' = loads
                /\ session_obj'[c] = NoSession]_vars

\* a call was answered from the fresh tier
C1_Witness ==
    \E c \in Callers :
        /\ pc[c] = "idle" /\ via[c] = "fresh"
        /\ result[c].status = 200 /\ result[c].body # None

\* C2 (fallback to stale): a call whose compute raised and that finds an
\* unexpired stale entry for its key returns exactly that entry's payload
\* and no error.
C2_FallbackToStale ==
    [][\A c \in Callers :
        LET k == << call[c].dom, "stale", call[c].key >>
        IN  (pc[c] = "except" /\ pc'[c] = "idle" /\ EntryLive(k)) =>
                /\ result'[c].status = 200
                /\ result'[c].body = api_cache[k].value
                /\ result'[c].error = "" /\ result'[c].details = ""]_vars

\* a call whose compute raised was answered from the stale tier
C2_Witness ==
    \E c \in Callers :
        /\ pc[c] = "idle" /\ via[c] = "stale"
        /\ result[c].status = 200 /\ result[c].body # None

\* C3 (no-fallback failure): a call whose compute raised and that finds no
\* unexpired stale entry for its key ends in HTTP 502 carrying the handler's
\* error label and the message of the error raised, and no payload.
C3_NoFallbackFailure ==
    [][\A c \in Callers :
        LET k == << call[c].dom, "stale", call[c].key >>
        IN  (pc[c] = "except" /\ pc'[c] = "idle" /\ ~EntryLive(k)) =>
                /\ result'[c].status = 502
                /\ result'[c].body = None
                /\ result'[c].details = last_error[c].msg
                /\ result'[c].details # ""
                /\ result'[c].error =
                     (IF call[c].dom = "session_results"
                      THEN "Failed to fetch session results"
                      ELSE "Failed to fetch circuit map")]_vars

\* a call ended in 502 while neither tier held an entry for its key
C3_Witness ==
    \E c \in Callers :
        /\ pc[c] = "idle" /\ via[c] = "error" /\ result[c].status = 502
        /\ ~EntryLive(<< call[c].dom, "fresh", call[c].key >>)
        /\ ~EntryLive(<< call[c].dom, "stale", call[c].key >>)

\* C4 as stated (write-through on success): when a call that missed the
\* fresh tier returns its computed payload P, the fresh and the stale entry
\* of its key both hold P with the fresh and the stale TTL.
C4_WriteThroughAsStated ==
    [][\A c \in Callers :
        (pc[c] = "set_stale" /\ pc'[c] = "idle") =>
            LET P == response_payload[c]
                fk == << call[c].dom, "fresh", call[c].key >>
                sk == << call[c].dom, "stale", call[c].key >>
            IN  /\ result'[c].status = 200 /\ result'[c].body = P
                /\ api_cache'[sk] = [value |-> P, expire_time |-> now + TableStaleTTL(call[c].dom)]
                /\ api_cache'[fk] = [value |-> P, expire_time |-> now + TableFreshTTL(call[c].dom)]]_vars

\* C4 amended: as C4, except that the fresh entry may hold another payload
\* when another call for the same key wrote the fresh tier between this
\* call's two writes.
C4_WriteThrough ==
    [][\A c \in Callers :
        (pc[c] = "set_stale" /\ pc'[c] = "idle") =>
            LET P == response_payload[c]
                fk == << call[c].dom, "fresh", call[c].key >>
                sk == << call[c].dom, "stale", call[c].key >>
            IN  /\ result'[c].status = 200 /\ result'[c].body = P
                /\ P # None
                /\ api_cache'[sk] = [value |-> P, expire_time |-> now + TableStaleTTL(call[c].dom)]
                /\ \/ clobbered[c]
                   \/ api_cache'[fk] = [value |-> P, expire_time |-> now + TableFreshTTL(call[c].dom)]]_vars

\* a call returned its computed payload and both tiers hold it
C4_Witness ==
    \E c \in Callers :
        /\ pc[c] = "idle" /\ via[c] = "computed" /\ ~clobbered[c]
        /\ api_cache[<< call[c].dom, "fresh", call[c].key >>].value = result[c].body
        /\ api_cache[<< call[c].dom, "stale", call[c].key >>].value = result[c].body
        /\ result[c].body # None

\* ------------------------------------------------------------------------
\* Properties of the retrying session loader
\* ------------------------------------------------------------------------
\* the loader of handler c has raised: the handler is in its except branch
\* without a loaded session
LoaderRaised(c) == pc[c] = "except" /\ session_obj[c] = NoSession

\* C5 (retry bound): the loader never makes a 4th attempt, and when it
\* raises every attempt has failed: it has made exactly 3 attempts and
\* exactly 2 sleeps of 1 second, none after the third failure.
C5_RetryBound ==
    \A c \in Callers :
        /\ attempt[c] <= 3
        /\ LoaderRaised(c) =>
                /\ attempt[c] = 3
                /\ sleeps[c] = << 1, 1 >>
                /\ last_error[c] # NoError
        /\ pc[c] = "sleep" => attempt[c] < 3 /\ Len(sleeps[c]) = attempt[c] - 1

\* the loader raised after its attempts were exhausted
C5_Witness ==
    \E c \in Callers : LoaderRaised(c) /\ attempt[c] = 3 /\ Len(sleeps[c]) = 2

\* C6 (retry success path): the loader returns at its first successful
\* attempt k in 1..3 with the session that attempt loaded, having slept
\* exactly k-1 times for 1 second each, and raises nothing; it makes no
\* further attempt afterwards.
C6_RetrySuccessPath ==
    [][\A c \in Callers :
        /\ (pc[c] = "attempt" /\ pc'[c] = "build") =>
              /\ loads' = loads + 1
              /\ session_obj'[c].id = loads' /\ session_obj'[c].attempt = attempt[c]
              /\ last_error'[c] = last_error[c]
              /\ attempt[c] \in 1..3
              /\ Len(sleeps'[c]) = attempt[c] - 1
              /\ \A i \in 1..Len(sleeps'[c]) : sleeps'[c][i] = 1
              /\ attempt'[c] = attempt[c]
        /\ pc[c] = "build" => pc'[c] \in {"build", "set_fresh", "except"}
                              /\ attempt'[c] = attempt[c] /\ sleeps'[c] = sleeps[c]]_vars

\* the loader returned the session of attempt 3 after two failures
C6_Witness ==
    \E c \in Callers :
        /\ pc[c] = "build" /\ session_obj[c].attempt = 3
        /\ sleeps[c] = << 1, 1 >> /\ last_error[c] \in TransientErrors

\* ------------------------------------------------------------------------
\* The stale tier
\* ------------------------------------------------------------------------
\* a call for the slot has computed its payload and not yet written the
\* stale tier
PendingWrite(slot) ==
    \E c \in Callers :
        /\ pc[c] \in {"set_fresh", "set_stale"}
        /\ call[c].dom = slot[1] /\ call[c].key = slot[2]

\* the stale entry changes only by the stale write of a successful compute,
\* which stores the payload that call computed
StaleChangesOnlyOnSuccess ==
    \A slot \in Slots :
        LET sk == << slot[1], "stale", slot[2] >>
        IN  api_cache'[sk] # api_cache[sk] =>
                \E c \in Callers :
                    /\ pc[c] = "set_stale" /\ pc'[c] = "idle"
                    /\ call[c].dom = slot[1] /\ call[c].key = slot[2]
                    /\ response_payload[c] # None
                    /\ api_cache'[sk].value = response_payload[c]
                    /\ result'[c].body = response_payload[c]

SlotUsable(i) ==
    /\ event[i].name.kind = "str" /\ Strip(event[i].name.val) # ""
    /\ event[i].date.kind = "ts"

\* the pair (lowercased trimmed name, ISO date) of slot i
SlotPair(i) == << Lower(Strip(event[i].name.val)), IsoFormat(event[i].date) >>

\* slot i is usable and no earlier usable slot has its pair
SlotFirst(i) ==
    /\ SlotUsable(i)
    /\ \A j \in 1..(i - 1) : SlotUsable(j) => SlotPair(j) # SlotPair(i)

\* the slots to emit, in slot order
EmittedSlots == SelectSeq(<< 1, 2, 3, 4, 5 >>, SlotFirst)

\* C9 (session dedup): the list returned has no two entries with the same
\* pair (lowercased trimmed name, ISO date); it holds, in slot order, one
\* entry (trimmed name, ISO date) for each slot that has a name and a date
\* and is the first slot with its pair, and nothing else.
C9_SessionDedup ==
    sessions_done =>
        /\ \A i, j \in 1..Len(sessions_list) :
              i # j =>
                << Lower(sessions_list[i].session_name), sessions_list[i].session_date >>
                 # << Lower(sessions_list[j].session_name), sessions_list[j].session_date >>
        /\ Len(sessions_list) = Len(EmittedSlots)
        /\ \A n \in 1..Len(EmittedSlots) :
              /\ sessions_list[n].session_name = Strip(event[EmittedSlots[n]].name.val)
              /\ sessions_list[n].session_date = IsoFormat(event[EmittedSlots[n]].date)

\* "Qualifying" and "QUALIFYING " on one date, with a skipped slot between
\* them, gave exactly one entry, ahead of a later session
C9_Witness ==
    /\ sessions_done
    /\ event[1] = [name |-> Text("Qualifying"), date |-> Day1]
    /\ event[2].name = NaN
    /\ event[3] = [name |-> Text("QUALIFYING "), date |-> Day1]
    /\ event[4] = [name |-> Text("Race"), date |-> Day2]
    /\ event[5].date = NaT
    /\ sessions_list =
         << [session_name |-> "Qualifying", session_date |-> "2024-03-01T15:00:00"],
            [session_name |-> "Race", session_date |-> "2024-03-02T15:00:00"] >>

\* ------------------------------------------------------------------------
\* Properties of the schedule accessor
\* ------------------------------------------------------------------------
\* C8 (schedule fallback): when get_schedule(year) is executed and the
\* upstream fetch fails, it returns the unexpired persistent entry
\* schedule:{year} if there is one and raises the upstream error if there is
\* none, leaving the cache as it is; when the fetch succeeds it stores the
\* fetched schedule under schedule:{year} with a TTL of 7 days and returns it.
C8_ScheduleFallback ==
    [][(sched_calls' = sched_calls + 1 /\ sched_out'.executed) =>
        LET o == sched_out'
            k == << "schedule", o.year >>
        IN  /\ fetches' = fetches + 1
            /\ o.upstream_ok =>
                  /\ o.fetched \in Schedules
                  /\ api_cache'[k] = [value |-> o.fetched, expire_time |-> now + 604800]
                  /\ o.returned = o.fetched /\ o.raised = NoError
            /\ (~o.upstream_ok /\ EntryLive(k)) =>
                  /\ o.returned = api_cache[k].value /\ o.raised = NoError
                  /\ api_cache' = api_cache
            /\ (~o.upstream_ok /\ ~EntryLive(k)) =>
                  /\ o.raised = o.exc /\ o.exc \in TransientErrors
                  /\ o.returned = None
                  /\ api_cache' = api_cache]_vars

\* an executed call whose fetch failed returned the persisted schedule of an
\* earlier success that the memo no longer held
C8_Witness ==
    /\ sched_out.executed /\ ~sched_out.upstream_ok
    /\ sched_out.raised = NoError /\ sched_out.returned \in Schedules
    /\ sched_out.returned = api_cache[<< "schedule", sched_out.year >>].value

\* ------------------------------------------------------------------------
\* Properties of the result rows
\* ------------------------------------------------------------------------
\* the field holds a value: it is there and is not NaT
Present(cell) == cell.kind = "td"

\* the value of the first field of the list that holds one, as the text the
\* response carries, None when there is none
FirstPresent(row, fields) ==
    IF \E i \in 1..Len(fields) : Present(row[fields[i]])
    THEN Text(row[fields[CHOOSE i \in 1..Len(fields) :
                     /\ Present(row[fields[i]])
                     /\ \A j \in 1..(i - 1) : ~Present(row[fields[j]])]].val)
    ELSE Missing

\* the session is a qualifying session
IsQualifying(name) == name.kind = "str" /\ Contains(Lower(name.val), "qualifying")

\* C10 (qualifying field policy): for a qualifying session the row's
\* lap_time is taken from Q3 if present, else Q2, else Q1, else Time (null
\* if none is present), and race_time and gap_to_winner are null.
C10_QualifyingFieldPolicy ==
    (res_state = "returned" /\ IsQualifying(res_name)) =>
        /\ res_out.lap_time = FirstPresent(res_row, << "Q3", "Q2", "Q1", "Time" >>)
        /\ res_out.race_time = Missing
        /\ res_out.gap_to_winner = Missing

\* the session is a race or a sprint: the lowercased name contains "race" or
\* is "sprint"
IsRaceOrSprint(name) ==
    name.kind = "str" /\ (Contains(Lower(name.val), "race") \/ Lower(name.val) = "sprint")

\* the Position of the row is the integer 1 or the string "1"
IsFirstPosition(row) == row.Position = Num(1) \/ row.Position = Text("1")

\* C11 (gap-to-winner literal): in a race or sprint session a row whose
\* Position is 1 or "1" gets gap_to_winner "0:00:00" whatever GapToLeader
\* and Time hold, every other row gets the first non-null of GapToLeader,
\* Time; in every other session gap_to_winner is null.
C11_GapToWinner ==
    res_state = "returned" =>
        res_out.gap_to_winner =
            IF ~IsRaceOrSprint(res_name) THEN Missing
            ELSE IF IsFirstPosition(res_row) THEN Text("0:00:00")
            ELSE FirstPresent(res_row, << "GapToLeader", "Time" >>)

\* a winner given as the string "1", with a gap and a time in the row
C11_Witness ==
    /\ res_state = "returned"
    /\ IsRaceOrSprint(res_name)
    /\ res_row.Position = Text("1")
    /\ Present(res_row.GapToLeader) /\ Present(res_row.Time)
    /\ res_out.gap_to_winner = Text("0:00:00")

\* the raw value is zero, empty or null/missing (None or NaN)
IsZeroEmptyNull(cell) ==
    \/ cell.kind \in {"none", "nan"}
    \/ (cell.kind = "num" /\ cell.num = 0)
    \/ (cell.kind = "str" /\ cell.val = "")

\* the integer the raw value stands for
IntegerOf(cell) ==
    IF cell.kind = "num" THEN cell
    ELSE Num(CHOOSE n \in 0..9 : Digits[n + 1] = cell.val)

\* C12 (position zero vs points zero): position, laps and grid_position are
\* null when the raw value is zero, empty or null/missing and the integer
\* otherwise; points is null only when the raw value is null and the float
\* otherwise (0.0 stays 0.0); such a row never makes the computation fail.
C12_IntegerFieldPolicy ==
    res_state # "input" =>
        /\ res_state = "returned"
        /\ res_out.position = IF IsZeroEmptyNull(res_row.Position) THEN Missing
                              ELSE IntegerOf(res_row.Position)
        /\ res_out.laps = IF IsZeroEmptyNull(res_row.Laps) THEN Missing
                          ELSE IntegerOf(res_row.Laps)
        /\ res_out.grid_position = IF IsZeroEmptyNull(res_row.GridPosition) THEN Missing
                                   ELSE IntegerOf(res_row.GridPosition)
        /\ res_out.points = IF res_row.Points.kind \in {"none", "nan"} THEN Missing
                            ELSE res_row.Points


\* ------------------------------------------------------------------------
\* Properties of the error paths
\* ------------------------------------------------------------------------
\* the call of the handler has finished
Finished(c) == pc[c] = "idle" /\ via[c] # "none"

\* C13 (NotFound is never masked): a session_results / circuit_map request
\* that names a round or session absent from the schedule ends in a 404,
\* never in a payload from the stale tier and never in a 502.
C13_NotFoundNeverMasked ==
    \A c \in Callers :
        (Finished(c) /\ call[c].key \in AbsentKeys) => result[c].status = 404

\* C15 (retries only for transient failures): a NotFound failure or a
\* NoDataForSession failure is followed by no sleep and no further attempt:
\* the call goes straight to its failure handling.
C15_NoRetryOfDeterministicFailure ==
    \A c \in Callers :
        last_error[c] \in {NotFoundError, NoLapError} =>
            /\ pc[c] = "except"
            /\ (last_error[c] = NotFoundError => attempt[c] = 1 /\ sleeps[c] = << >>)

\* C16 (exhausted-retry error identity): when the third attempt fails the
\* loader raises the error of that attempt, unchanged; and the loader is
\* left only with a loaded session or with an error of one of its attempts,
\* raised after the third attempt.
C16_ErrorIdentity ==
    [][\A c \in Callers :
         (pc[c] = "attempt" /\ pc'[c] # "attempt") =>
            \/ pc'[c] = "sleep" /\ attempt[c] < 3
            \/ pc'[c] = "build" /\ session_obj'[c] # NoSession
            \/ /\ pc'[c] = "except" /\ attempt[c] = 3
               /\ thrown'[c] # NoError
               /\ last_error'[c] = thrown'[c]]_vars

\* three attempts failed and the handler holds the error of the third
C16_Witness ==
    \E c \in Callers :
        /\ pc[c] = "except" /\ attempt[c] = 3 /\ session_obj[c] = NoSession
        /\ last_error[c] \in TransientErrors /\ last_error[c] = thrown[c]

\* ------------------------------------------------------------------------
\* Properties of the schedule memo
\* ------------------------------------------------------------------------
\* the step is a call of get_schedule for the year
ScheduleCallFor(y) == sched_calls' = sched_calls + 1 /\ sched_out'.year = y

FreshHitStep == calls' = calls + 1 /\ via'[Requester] = "fresh"

\* C17 (a fresh hit changes nothing): a call answered from the fresh tier
\* writes no cache entry: payload and expiry time of every entry stay as
\* they are; a fresh entry gets its expiry time, the time of the write plus
\* freshTTL, only when it is written, and is served only before that time.
C17_FreshHitNoWrite ==
    [][/\ FreshHitStep => api_cache' = api_cache
       /\ \A s \in Slots :
             LET fk == << s[1], "fresh", s[2] >>
             IN  /\ api_cache'[fk] # api_cache[fk] =>
                        api_cache'[fk].expire_time = now + TableFreshTTL(s[1])
                 /\ (FreshHitStep /\ call'[Requester] = [dom |-> s[1], key |-> s[2]]) =>
                        /\ api_cache[fk].expire_time - TableFreshTTL(s[1]) <= now
                        /\ now < api_cache[fk].expire_time]_vars

\* a call was answered from the fresh tier some time after the entry was
\* written
C17_Witness ==
    \E c \in Callers :
        LET fk == << call[c].dom, "fresh", call[c].key >>
        IN  /\ pc[c] = "idle" /\ via[c] = "fresh"
            /\ api_cache[fk].value = result[c].body
            /\ api_cache[fk].expire_time - TableFreshTTL(call[c].dom) < now
            /\ now < api_cache[fk].expire_time

\* the step ends the call of handler c in its except branch
ExceptStep(c) == pc[c] = "except" /\ pc'[c] = "idle"

\* C18 (bounded staleness): a stale entry expires staleTTL after its write
\* and a fresh entry freshTTL after its write; a call is answered from an
\* entry only less than staleTTL after the entry was written; and a call
\* whose compute fails when the stale entry has expired ends in the error.
C18_BoundedStaleness ==
    [][\A s \in Slots :
         LET fk == << s[1], "fresh", s[2] >>
             sk == << s[1], "stale", s[2] >>
             slot == [dom |-> s[1], key |-> s[2]]
         IN  /\ api_cache'[sk] # api_cache[sk] =>
                    api_cache'[sk].expire_time = now + TableStaleTTL(s[1])
             /\ api_cache'[fk] # api_cache[fk] =>
                    api_cache'[fk].expire_time = now + TableFreshTTL(s[1])
             /\ (FreshHitStep /\ call'[Requester] = slot) =>
                    /\ result'[Requester].body = api_cache[fk].value
                    /\ now < (api_cache[fk].expire_time - TableFreshTTL(s[1]))
                                + TableStaleTTL(s[1])
             /\ \A c \in Callers :
                    (ExceptStep(c) /\ call[c] = slot) =>
                        IF now < api_cache[sk].expire_time
                        THEN /\ result'[c].body = api_cache[sk].value
                             /\ api_cache[sk].expire_time - TableStaleTTL(s[1]) <= now
                        ELSE /\ result'[c].status = 502
                             /\ result'[c].body = None]_vars

\* a call whose compute failed after the entries of its key had expired
\* ended in the error
C18_Witness ==
    \E c \in Callers :
        LET fk == << call[c].dom, "fresh", call[c].key >>
            sk == << call[c].dom, "stale", call[c].key >>
        IN  /\ pc[c] = "idle" /\ via[c] = "error" /\ result[c].status = 502
            /\ api_cache[sk] # NoEntry /\ api_cache[sk].expire_time <= now
            /\ api_cache[fk] # NoEntry /\ api_cache[fk].expire_time <= now

\* ------------------------------------------------------------------------
\* Properties of concurrent calls for one key
\* ------------------------------------------------------------------------
\* C19 (cold-key stampede): a call that starts while the fresh tier has no
\* entry for its key goes on to compute whatever other calls are doing;
\* each call that computed writes its own payload to the fresh and to the
\* stale tier, so each tier holds the payload of its last writer, and
\* returns its own payload.
C19_ColdKeyStampede ==
    [][/\ calls' = calls + 1 =>
            LET c == Requester
                fk == << call'[c].dom, "fresh", call'[c].key >>
            IN  ~EntryLive(fk) => pc'[c] = "attempt" /\ attempt'[c] = 1
       /\ \A c \in Callers :
            LET fk == << call[c].dom, "fresh", call[c].key >>
                sk == << call[c].dom, "stale", call[c].key >>
            IN  /\ (pc[c] = "build" /\ pc'[c] = "set_fresh") =>
                        response_payload'[c] = session_obj[c].id
                /\ (pc[c] = "set_fresh" /\ pc'[c] = "set_stale") =>
                        api_cache'[fk].value = response_payload[c]
                /\ (pc[c] = "set_stale" /\ pc'[c] = "idle") =>
                        /\ api_cache'[sk].value = response_payload[c]
                        /\ result'[c].status = 200
                        /\ result'[c].body = response_payload[c]]_vars

\* two calls for one key have both computed, from two upstream loads, and
\* neither has written the cache yet
C19_Witness ==
    \E c1, c2 \in Callers :
        /\ c1 # c2 /\ call[c1] = call[c2]
        /\ pc[c1] = "set_fresh" /\ pc[c2] = "set_fresh"
        /\ response_payload[c1] # None /\ response_payload[c2] # None
        /\ response_payload[c1] # response_payload[c2]
        /\ api_cache[<< call[c1].dom, "fresh", call[c1].key >>] = NoEntry
        /\ api_cache[<< call[c1].dom, "stale", call[c1].key >>] = NoEntry
        /\ loads = 2

\* the place of the payload in the order in which the computes finished
Rank(payload) == CHOOSE i \in 1..Len(computed) : computed[i] = payload

\* no call for the slot is between its two cache writes
NoneBetweenWrites(s) ==
    \A c \in Callers : ~(pc[c] = "set_stale" /\ call[c] = [dom |-> s[1], key |-> s[2]])

\* C20 as stated: when no call for K is between its two cache writes and
\* the fresh tier holds an entry for K, the stale tier holds one too and its
\* payload comes from the same or a later compute than the fresh payload.
C20_StaleAtLeastAsRecentAsStated ==
    \A s \in Slots :
        LET fk == << s[1], "fresh", s[2] >>
            sk == << s[1], "stale", s[2] >>
        IN  (NoneBetweenWrites(s) /\ EntryLive(fk)) =>
                /\ EntryLive(sk)
                /\ Rank(api_cache[sk].value) >= Rank(api_cache[fk].value)

\* C20 amended: as C20, for the keys for which no compute has finished
\* while an earlier compute for the key still had a cache write pending.
C20_StaleAtLeastAsRecent ==
    \A s \in Slots :
        LET fk == << s[1], "fresh", s[2] >>
            sk == << s[1], "stale", s[2] >>
        IN  (~raced[s] /\ NoneBetweenWrites(s) /\ EntryLive(fk)) =>
                /\ EntryLive(sk)
                /\ Rank(api_cache[sk].value) >= Rank(api_cache[fk].value)

\* two computes for one key have run one after the other, time has passed
\* since the first, and both tiers hold the payload of the second
C20_Witness ==
    \E s \in Slots :
        LET fk == << s[1], "fresh", s[2] >>
            sk == << s[1], "stale", s[2] >>
        IN  /\ ~raced[s] /\ NoneBetweenWrites(s)
            /\ EntryLive(fk) /\ EntryLive(sk)
            /\ Len(computed) = 2 /\ now > 0
            /\ api_cache[fk].value = computed[2]
            /\ api_cache[sk].value = computed[2]
            /\ api_cache[fk].expire_time = now + TableFreshTTL(s[1])
====
